---- MODULE Spec2Model ----
(***************************************************************************)
(* Model of the death-pool visualisation scripts.                          *)
(*                                                                         *)
(*   death_pool_animated.py  ("animated", sequence mode): load_data, the   *)
(*       cumulative year ranges, plot_for_year per range, GIF assembly,    *)
(*       frame cleanup.                                                    *)
(*   death_pool.py           ("grid", grid mode): column validation,       *)
(*       Rank_Color, the hard-coded year ranges, the subplot grid,         *)
(*       plot_cumulative_years per cell, hiding of the unused cells.       *)
(*                                                                         *)
(* A run executes one of the two scripts on one CSV table with integer     *)
(* columns, starting with no frame file in images/.  Numbers that pandas   *)
(* keeps as floats (means, normalised colours) are exact rationals [n, d]; *)
(* 0/0 is NaN, as numpy's float division gives (no exception).             *)
(***************************************************************************)
EXTENDS Integers, Sequences, FiniteSets, TLC

VARIABLES
  script,       \* which script runs: "animated" or "grid"
  pc,           \* position in the script
  csv,          \* the input file: [status, columns, rows]
  df,           \* the loaded table: [columns, rows]
  rank_color,   \* grid: the Rank_Color column added to df
  year_ranges,  \* the list of year ranges
  i,            \* 1-based position of the running loop
  df_player,    \* the summary (with its encodings) of the last chart
  axes,         \* grid: the flattened subplot cells
  frame_paths,  \* animated: frame files, named by the year in the name
  disk,         \* animated: frame files present in images/
  gif,          \* animated: frames of the saved GIF, <<>> when none
  png,          \* grid: the cells of the saved image, <<>> when none
  out           \* console output and uncaught-exception messages

vars == <<script, pc, csv, df, rank_color, year_ranges, i, df_player,
          axes, frame_paths, disk, gif, png, out>>

(* ------------------------------ bounds --------------------------------- *)
MaxRows == 2

Players == {"PlayerA", "PlayerB"}
PlayerOrder == <<"PlayerA", "PlayerB">>
Years == {2017, 2019}
\* <<Deaths, Points, Wins, Rank>> of a generated row
Stats == {<<1, 10, 0, 2>>, <<3, 5, 1, 1>>, <<2, 4, 2, 3>>}

Row(p, y, s) ==
  [Player |-> p, Year |-> y, Deaths |-> s[1], Points |-> s[2],
   Wins |-> s[3], Rank |-> s[4]]

RowSet == {Row(p, y, s) : p \in Players, y \in Years, s \in Stats}

\* the three-row fixture of the end-to-end property
Fixture ==
  << Row("PlayerA", 2020, <<1, 10, 0, 2>>),
     Row("PlayerB", 2020, <<3, 5, 1, 1>>),
     Row("PlayerA", 2021, <<2, 4, 0, 3>>) >>

\* three distinct years with a gap, rows not in year order
GapYears ==
  << Row("PlayerA", 2019, <<1, 10, 0, 2>>),
     Row("PlayerB", 2017, <<3, 5, 1, 1>>),
     Row("PlayerA", 2020, <<2, 4, 2, 3>>) >>

SmallDatasets == {Fixture, GapYears}
Datasets == (UNION {[1..n -> RowSet] : n \in 0..MaxRows}) \cup SmallDatasets

(* --------------------------- program constants ------------------------- *)
required_columns == <<"Deaths", "Points", "Wins", "Rank", "Player", "Year">>
RequiredSet == {required_columns[k] : k \in 1..Len(required_columns)}

sizing_factor == 100
max_size == 500
size_cap == 500
size_scale == 100
cols == 4
first_year == 2017
end_year == 2026

(* ------------------------------ helpers -------------------------------- *)
Elems(s) == {s[k] : k \in 1..Len(s)}
Last(s) == s[Len(s)]
SetMin(S) == CHOOSE x \in S : \A y \in S : x <= y

\* list(range(a, b)): a, a+1, ..., b-1
PyRange(a, b) == [k \in 1..(IF b > a THEN b - a ELSE 0) |-> a + k - 1]

Msg(kind, years, columns) == [kind |-> kind, years |-> years, cols |-> columns]

\* exact rationals n/d with d > 0; NaN is the result of 0/0
NaN == [n |-> 0, d |-> 0]
Rat(n, d) == [n |-> n, d |-> d]
RLeq(a, b) == a.n * b.d <= b.n * a.d
REq(a, b) == a.n * b.d = b.n * a.d
RSub(a, b) == Rat(a.n * b.d - b.n * a.d, a.d * b.d)
\* float division a / b for b >= 0; 0/0 gives NaN
RDiv(a, b) == IF b.n = 0 THEN NaN ELSE Rat(a.n * b.d, a.d * b.n)
RMin(S) == CHOOSE x \in S : \A y \in S : RLeq(x, y)
RMax(S) == CHOOSE x \in S : \A y \in S : RLeq(y, x)


(* ------------------------------ aggregation ---------------------------- *)
\* the filter keeping only the last year of the range
FilteredLastYear(rows, year_range) ==
  SelectSeq(rows, LAMBDA r : r.Year = Last(year_range))

\* df[df["Year"].isin(year_range)]
Filtered(rows, year_range) ==
  SelectSeq(rows, LAMBDA r : r.Year \in Elems(year_range))

\* the fold that overwrites instead of adding: the group's last value
RECURSIVE GroupLast(_, _, _)
GroupLast(rows, p, col) ==
  IF rows = <<>> THEN 0
  ELSE IF Last(rows).Player = p THEN Last(rows)[col]
  ELSE GroupLast(SubSeq(rows, 1, Len(rows) - 1), p, col)

\* sum of a column over the rows of one group, folded in row order
RECURSIVE GroupSum(_, _, _)
GroupSum(rows, p, col) ==
  IF rows = <<>> THEN 0
  ELSE (IF Head(rows).Player = p THEN Head(rows)[col] ELSE 0)
       + GroupSum(Tail(rows), p, col)

RECURSIVE GroupCount(_, _)
GroupCount(rows, p) ==
  IF rows = <<>> THEN 0
  ELSE (IF Head(rows).Player = p THEN 1 ELSE 0) + GroupCount(Tail(rows), p)

\* the group keys of groupby("Player"), in sorted order
GroupKeys(rows) ==
  SelectSeq(PlayerOrder, LAMBDA p : \E k \in 1..Len(rows) : rows[k].Player = p)

\* animated: groupby("Player").agg(sum, sum, sum, mean).reset_index()
Aggregate(rows, year_range) ==
  LET f == Filtered(rows, year_range)
      keys == GroupKeys(f)
  IN [k \in 1..Len(keys) |->
        [Player |-> keys[k],
         Total_Deaths |-> GroupSum(f, keys[k], "Deaths"),
         Total_Points |-> GroupSum(f, keys[k], "Points"),
         Total_Wins |-> GroupSum(f, keys[k], "Wins"),
         Average_Rank |-> Rat(GroupSum(f, keys[k], "Rank"), GroupCount(f, keys[k]))]]

\* grid: the same aggregation plus Count_Years = nunique(Year)
GridAggregate(rows, year_range) ==
  LET f == Filtered(rows, year_range)
      keys == GroupKeys(f)
  IN [k \in 1..Len(keys) |->
        [Player |-> keys[k],
         Total_Deaths |-> GroupSum(f, keys[k], "Deaths"),
         Total_Points |-> GroupSum(f, keys[k], "Points"),
         Total_Wins |-> GroupSum(f, keys[k], "Wins"),
         Average_Rank |-> Rat(GroupSum(f, keys[k], "Rank"), GroupCount(f, keys[k])),
         Count_Years |->
           Cardinality({f[m].Year : m \in {m \in 1..Len(f) : f[m].Player = keys[k]}})]]

(* ------------------------------- encoding ------------------------------ *)
\* animated: (x - min) / (max - min) over the Average_Rank column
NormalizeRank(x, column) ==
  RDiv(RSub(x, RMin(column)), RSub(RMax(column), RMin(column)))

\* animated: (Total_Wins / 2) * (max_size - sizing_factor) + sizing_factor
AnimatedSize(wins) == (wins * (max_size - sizing_factor)) \div 2 + sizing_factor

RECURSIVE Pow2(_)
Pow2(w) == IF w = 0 THEN 1 ELSE 2 * Pow2(w - 1)

\* grid: np.clip(2 ** Total_Wins, None, 500) * 100; the totals of the
\* bounded tables stay far below the width of int64
GridSize(wins) ==
  (IF Pow2(wins) > size_cap THEN size_cap ELSE Pow2(wins)) * size_scale

\* animated: the summary with its Rank_Color and Size columns
Encode(summary) ==
  LET column == {summary[k].Average_Rank : k \in 1..Len(summary)}
  IN [k \in 1..Len(summary) |->
        [Player |-> summary[k].Player,
         Total_Deaths |-> summary[k].Total_Deaths,
         Total_Points |-> summary[k].Total_Points,
         Total_Wins |-> summary[k].Total_Wins,
         Average_Rank |-> summary[k].Average_Rank,
         Color |-> NormalizeRank(summary[k].Average_Rank, column),
         Size |-> AnimatedSize(summary[k].Total_Wins)]]

\* grid: c = Average_Rank (raw), s = the capped power of two
GridEncode(summary) ==
  [k \in 1..Len(summary) |->
     [Player |-> summary[k].Player,
      Total_Deaths |-> summary[k].Total_Deaths,
      Total_Points |-> summary[k].Total_Points,
      Total_Wins |-> summary[k].Total_Wins,
      Average_Rank |-> summary[k].Average_Rank,
      Count_Years |-> summary[k].Count_Years,
      Color |-> summary[k].Average_Rank,
      Size |-> GridSize(summary[k].Total_Wins)]]


(* ------------------------------ initial state -------------------------- *)
NoTable == [columns |-> {}, rows |-> <<>>]

\* the input files of the model: every bounded table with all six columns,
\* the small tables with any one column removed, a missing file and a file
\* that does not parse
Inputs ==
  {[status |-> "ok", columns |-> RequiredSet, rows |-> d] : d \in Datasets}
  \cup {[status |-> "ok", columns |-> RequiredSet \ {c}, rows |-> d] :
          c \in RequiredSet, d \in SmallDatasets}
  \cup {[status |-> st, columns |-> {}, rows |-> <<>>] :
          st \in {"missing", "unparseable"}}

Init ==
  /\ script \in {"animated", "grid"}
  /\ pc = "load"
  /\ csv \in Inputs
  /\ df = NoTable
  /\ rank_color = <<>>
  /\ year_ranges = <<>>
  /\ i = 1
  /\ df_player = <<>>
  /\ axes = <<>>
  /\ frame_paths = <<>>
  /\ disk = {}
  /\ gif = <<>>
  /\ png = <<>>
  /\ out = <<>>

(* --------------------- death_pool_animated.py -------------------------- *)
\* load_data: exit() after a message on a missing file, a parse error, or
\* when "Year" or "Player" is not a column
load_data ==
  /\ script = "animated" /\ pc = "load"
  /\ IF csv.status = "missing"
       THEN /\ out' = Append(out, Msg("file_not_found", <<>>, {}))
            /\ pc' = "exited" /\ df' = df
     ELSE IF csv.status = "unparseable"
       THEN /\ out' = Append(out, Msg("parse_error", <<>>, {}))
            /\ pc' = "exited" /\ df' = df
     ELSE IF "Year" \notin csv.columns \/ "Player" \notin csv.columns
       THEN /\ out' = Append(out, Msg("missing_columns", <<>>, {}))
            /\ pc' = "exited" /\ df' = df
     ELSE /\ df' = [columns |-> csv.columns, rows |-> csv.rows]
          /\ pc' = "ranges" /\ out' = out
  /\ UNCHANGED <<script, csv, rank_color, year_ranges, i, df_player, axes,
                 frame_paths, disk, gif, png>>

\* df["Year"].unique(): the distinct years in order of first appearance
RECURSIVE Unique(_)
Unique(years) ==
  IF years = <<>> THEN <<>>
  ELSE LET front == Unique(SubSeq(years, 1, Len(years) - 1))
       IN IF Last(years) \in Elems(front) THEN front
          ELSE Append(front, Last(years))

\* [list(range(min(valid_years), year + 1)) for year in valid_years ...]
CumulativeRanges(valid_years) ==
  [k \in 1..Len(valid_years) |->
     PyRange(SetMin(Elems(valid_years)), valid_years[k] + 1)]

year_ranges_step ==
  /\ script = "animated" /\ pc = "ranges"
  /\ LET valid_years == Unique([k \in 1..Len(df.rows) |-> df.rows[k].Year])
     IN /\ year_ranges' = CumulativeRanges(valid_years)
        /\ pc' = IF valid_years = <<>> THEN "assemble" ELSE "render"
  /\ i' = 1
  /\ UNCHANGED <<script, csv, df, rank_color, df_player, axes, frame_paths,
                 disk, gif, png, out>>

\* the path images/frame_<last year>.png, named by its year
FramePath(year_range) == Last(year_range)

\* plot_for_year without its try/except: a failure ends the script
plot_for_year_uncaught ==
  /\ script = "animated" /\ pc = "render"
  /\ LET year_range == year_ranges[i]
         path == FramePath(year_range)
         has_columns == {"Deaths", "Points", "Wins", "Rank"} \subseteq df.columns
     IN \E fails \in BOOLEAN :
          IF ~has_columns \/ fails
            THEN /\ out' = Append(out, Msg("plot_error", year_range, {}))
                 /\ pc' = "crashed"
                 /\ UNCHANGED <<df_player, disk, frame_paths, i>>
            ELSE /\ df_player' = Encode(Aggregate(df.rows, year_range))
                 /\ disk' = disk \cup {path}
                 /\ out' = out
                 /\ frame_paths' = Append(frame_paths, path)
                 /\ i' = i + 1
                 /\ pc' = IF i = Len(year_ranges) THEN "assemble" ELSE "render"
  /\ UNCHANGED <<script, csv, df, rank_color, year_ranges, axes, gif, png>>

\* one iteration of the frame loop: plot_for_year, then frame_paths.append.
\* The aggregation raises KeyError when one of its columns is absent; any
\* later call (drawing, savefig) may fail as well.  Every exception is
\* caught and printed with the year range, and no file is written.
plot_for_year ==
  /\ script = "animated" /\ pc = "render"
  /\ LET year_range == year_ranges[i]
         path == FramePath(year_range)
         has_columns == {"Deaths", "Points", "Wins", "Rank"} \subseteq df.columns
     IN /\ \E fails \in BOOLEAN :
             IF ~has_columns
               THEN /\ out' = Append(out, Msg("plot_error", year_range, {}))
                    /\ UNCHANGED <<df_player, disk>>
             ELSE /\ df_player' = Encode(Aggregate(df.rows, year_range))
                  /\ IF fails
                       THEN /\ out' = Append(out, Msg("plot_error", year_range, {}))
                            /\ disk' = disk
                       ELSE /\ disk' = disk \cup {path}
                            /\ out' = out
        /\ frame_paths' = Append(frame_paths, path)
  /\ i' = i + 1
  /\ pc' = IF i = Len(year_ranges) THEN "assemble" ELSE "render"
  /\ UNCHANGED <<script, csv, df, rank_color, year_ranges, axes, gif, png>>

\* the try block that opens every frame and saves the GIF: Image.open
\* raises on a missing file, frames[0] on an empty list, save on an I/O
\* error; every exception is caught and printed
assemble_gif ==
  /\ script = "animated" /\ pc = "assemble"
  /\ \E fails \in BOOLEAN :
       IF frame_paths = <<>> \/ ~(Elems(frame_paths) \subseteq disk) \/ fails
         THEN /\ out' = Append(out, Msg("gif_error", <<>>, {}))
              /\ gif' = gif
         ELSE /\ gif' = frame_paths
              /\ out' = Append(out, Msg("gif_saved", <<>>, {}))
  /\ i' = 1
  /\ pc' = IF frame_paths = <<>> THEN "done" ELSE "cleanup"
  /\ UNCHANGED <<script, csv, df, rank_color, year_ranges, df_player, axes,
                 frame_paths, disk, png>>

\* the cleanup loop with the try around the whole loop: the first failed
\* os.remove ends it
remove_frame_stops ==
  /\ script = "animated" /\ pc = "cleanup"
  /\ LET frame == frame_paths[i]
     IN \E fails \in BOOLEAN :
          IF frame \notin disk \/ fails
            THEN /\ out' = Append(out, Msg("remove_error", <<frame>>, {}))
                 /\ disk' = disk
                 /\ pc' = "done"
            ELSE /\ disk' = disk \ {frame}
                 /\ out' = out
                 /\ pc' = IF i = Len(frame_paths) THEN "done" ELSE "cleanup"
  /\ i' = i + 1
  /\ UNCHANGED <<script, csv, df, rank_color, year_ranges, df_player, axes,
                 frame_paths, gif, png>>

\* one iteration of the cleanup loop: os.remove raises on a file that is
\* not there or cannot be removed; the exception is caught and printed
remove_frame ==
  /\ script = "animated" /\ pc = "cleanup"
  /\ LET frame == frame_paths[i]
     IN \E fails \in BOOLEAN :
          IF frame \notin disk \/ fails
            THEN /\ out' = Append(out, Msg("remove_error", <<frame>>, {}))
                 /\ disk' = disk
            ELSE /\ disk' = disk \ {frame}
                 /\ out' = out
  /\ i' = i + 1
  /\ pc' = IF i = Len(frame_paths) THEN "done" ELSE "cleanup"
  /\ UNCHANGED <<script, csv, df, rank_color, year_ranges, df_player, axes,
                 frame_paths, gif, png>>


(* ---------------------------- death_pool.py ---------------------------- *)
\* [col for col in required_columns if col not in df.columns]
MissingColumns(columns) ==
  SelectSeq(required_columns, LAMBDA c : c \notin columns)

\* pd.read_csv and the column validation: every failure is an uncaught
\* exception that ends the script; the ValueError lists the missing columns
grid_load ==
  /\ script = "grid" /\ pc = "load"
  /\ IF csv.status = "missing"
       THEN /\ out' = Append(out, Msg("file_not_found", <<>>, {}))
            /\ pc' = "crashed" /\ df' = df
     ELSE IF csv.status = "unparseable"
       THEN /\ out' = Append(out, Msg("parse_error", <<>>, {}))
            /\ pc' = "crashed" /\ df' = df
     ELSE IF MissingColumns(csv.columns) # <<>>
       THEN /\ out' = Append(out, Msg("missing_columns", <<>>,
                                      Elems(MissingColumns(csv.columns))))
            /\ pc' = "crashed" /\ df' = df
     ELSE /\ df' = [columns |-> csv.columns, rows |-> csv.rows]
          /\ pc' = "rank_color" /\ out' = out
  /\ UNCHANGED <<script, csv, rank_color, year_ranges, i, df_player, axes,
                 frame_paths, disk, gif, png>>

\* df["Rank_Color"]: min-max normalisation of the raw Rank column
RankColorColumn(rows) ==
  LET ranks == {Rat(rows[k].Rank, 1) : k \in 1..Len(rows)}
  IN [k \in 1..Len(rows) |-> NormalizeRank(Rat(rows[k].Rank, 1), ranks)]

grid_rank_color ==
  /\ script = "grid" /\ pc = "rank_color"
  /\ rank_color' = RankColorColumn(df.rows)
  /\ df' = [df EXCEPT !.columns = @ \cup {"Rank_Color"}]
  /\ pc' = "ranges"
  /\ UNCHANGED <<script, csv, year_ranges, i, df_player, axes, frame_paths,
                 disk, gif, png, out>>

\* [list(range(2017, year + 1)) for year in range(2017, 2026)]
GridRanges ==
  LET years == PyRange(first_year, end_year)
  IN [k \in 1..Len(years) |-> PyRange(first_year, years[k] + 1)]

grid_year_ranges ==
  /\ script = "grid" /\ pc = "ranges"
  /\ year_ranges' = GridRanges
  /\ pc' = "subplots"
  /\ UNCHANGED <<script, csv, df, rank_color, i, df_player, axes, frame_paths,
                 disk, gif, png, out>>

\* the row count by floor division
GridRowsFloor(num_plots) == num_plots \div cols

\* rows = (num_plots + cols - 1) // cols
GridRows(num_plots) == (num_plots + cols - 1) \div cols

Cell(state, title) == [state |-> state, title |-> title]

\* plt.subplots(nrows=rows, ncols=cols) and axes.flatten(): rows * cols
\* empty, visible cells
grid_subplots ==
  /\ script = "grid" /\ pc = "subplots"
  /\ axes' = [k \in 1..(GridRows(Len(year_ranges)) * cols) |-> Cell("blank", 0)]
  /\ i' = 1
  /\ pc' = "plot"
  /\ UNCHANGED <<script, csv, df, rank_color, year_ranges, df_player,
                 frame_paths, disk, gif, png, out>>

\* one iteration of the enumerate loop: plot_cumulative_years on axes[i]
\* (cell i of the 1-based model is axes[i - 1] of the script)
plot_cumulative_years ==
  /\ script = "grid" /\ pc = "plot"
  /\ df_player' = GridEncode(GridAggregate(df.rows, year_ranges[i]))
  /\ axes' = [axes EXCEPT ![i] = Cell("drawn", Last(year_ranges[i]))]
  /\ i' = i + 1
  /\ pc' = IF i = Len(year_ranges) THEN "hide" ELSE "plot"
  /\ UNCHANGED <<script, csv, df, rank_color, year_ranges, frame_paths, disk,
                 gif, png, out>>

\* for ax in axes[len(year_ranges):]: ax.axis("off")
grid_hide ==
  /\ script = "grid" /\ pc = "hide"
  /\ IF i <= Len(axes)
       THEN /\ axes' = [axes EXCEPT ![i] = Cell("off", @.title)]
            /\ i' = i + 1
            /\ pc' = pc
       ELSE /\ pc' = "save"
            /\ UNCHANGED <<axes, i>>
  /\ UNCHANGED <<script, csv, df, rank_color, year_ranges, df_player,
                 frame_paths, disk, gif, png, out>>

\* plt.savefig(output_image) and the completion message
grid_save ==
  /\ script = "grid" /\ pc = "save"
  /\ png' = axes
  /\ out' = Append(out, Msg("grid_saved", <<>>, {}))
  /\ pc' = "done"
  /\ UNCHANGED <<script, csv, df, rank_color, year_ranges, i, df_player, axes,
                 frame_paths, disk, gif>>

(* ----------------------------- specification --------------------------- *)
Next ==
  \/ load_data
  \/ year_ranges_step
  \/ plot_for_year
  \/ assemble_gif
  \/ remove_frame
  \/ grid_load
  \/ grid_rank_color
  \/ grid_year_ranges
  \/ grid_subplots
  \/ plot_cumulative_years
  \/ grid_hide
  \/ grid_save

Spec == Init /\ [][Next]_vars

TypeOK ==
  /\ script \in {"animated", "grid"}
  /\ pc \in {"load", "exited", "crashed", "ranges", "render", "assemble",
             "cleanup", "rank_color", "subplots", "plot", "hide", "save", "done"}
  /\ disk \subseteq Elems(frame_paths)


(* =============================== claims ================================ *)
Printed(kind) == \E k \in 1..Len(out) : out[k].kind = kind
StatColumns == {"Deaths", "Points", "Wins", "Rank"}

\* a chart has just been computed from year_ranges[i - 1] into df_player
ChartDrawn ==
  \/ script = "animated" /\ pc \in {"render", "assemble"} /\ i > 1
       /\ StatColumns \subseteq df.columns
  \/ script = "grid" /\ pc = "plot" /\ i > 1

ChartRange == year_ranges[i - 1]

\* C1: with all six required columns the load succeeds; with any one of
\* them removed the run ends in a fatal error whose message names the
\* removed column, before any year range is generated or chart rendered.
C1_MissingColumnIsFatalAndNamed ==
  (csv.status = "ok" /\ pc # "load") =>
     /\ csv.columns = RequiredSet =>
          (pc \notin {"exited", "crashed"} /\ df.rows = csv.rows)
     /\ \A c \in RequiredSet :
          csv.columns = RequiredSet \ {c} =>
            /\ pc \in {"exited", "crashed"}
            /\ \E k \in 1..Len(out) :
                 out[k].kind = "missing_columns" /\ c \in out[k].cols
            /\ year_ranges = <<>> /\ df_player = <<>> /\ disk = {}

\* the frames that plot_for_year wrote: those whose range was not reported
ProducedFrames ==
  {FramePath(year_ranges[k]) :
     k \in {m \in 1..Len(frame_paths) :
              ~\E e \in 1..Len(out) :
                 out[e].kind = "plot_error" /\ out[e].years = year_ranges[m]}}

\* C2: in sequence mode a failed assembly is reported, the run goes on,
\* and no frame file that was produced is deleted afterwards.
C2_FailedAssemblyKeepsFrames ==
  (script = "animated" /\ Printed("gif_error")) =>
     /\ pc \in {"cleanup", "done"}
     /\ ProducedFrames \subseteq disk

PlotErrors == {k \in 1..Len(out) : out[k].kind = "plot_error"}

\* C3: in sequence mode, when the render of exactly one year range fails,
\* the failure is reported with that range, the frame of every other range
\* is on disk when assembly starts, the run does not stop before its end,
\* and once assembly is over either the GIF exists or its failure was
\* reported.
C3_RenderFailureIsolated ==
  (script = "animated" /\ Cardinality(PlotErrors) = 1) =>
     LET failed == out[CHOOSE k \in PlotErrors : TRUE].years
     IN /\ \E k \in 1..Len(frame_paths) : year_ranges[k] = failed
        /\ pc \notin {"exited", "crashed"}
        /\ pc # "done" => ENABLED Next
        /\ pc = "assemble" =>
             /\ Len(frame_paths) = Len(year_ranges)
             /\ \A k \in 1..Len(year_ranges) :
                  year_ranges[k] # failed => FramePath(year_ranges[k]) \in disk
        /\ pc \in {"cleanup", "done"} => (gif # <<>> \/ Printed("gif_error"))

\* a run with two year ranges, one failed render, the other frame written,
\* and the assembly failure reported
C3_Witness ==
  /\ script = "animated" /\ pc = "cleanup" /\ i = 1
  /\ Cardinality(PlotErrors) = 1
  /\ Len(year_ranges) >= 2
  /\ disk # {}
  /\ Printed("gif_error")

ObservedYears == {csv.rows[k].Year : k \in 1..Len(csv.rows)}

\* C4 (sequence mode): one range per distinct year Y of the data, holding
\* the observed years from the minimum year up to Y, in ascending order of
\* Y whatever the order of the rows.
C4_RangesAscendingPerObservedYear ==
  (script = "animated" /\ pc \in {"render", "assemble", "cleanup", "done"}) =>
     /\ {Last(year_ranges[k]) : k \in 1..Len(year_ranges)} = ObservedYears
     /\ Len(year_ranges) = Cardinality(ObservedYears)
     /\ \A k \in 1..Len(year_ranges) :
          Elems(year_ranges[k]) \cap ObservedYears
            = {y \in ObservedYears : y <= Last(year_ranges[k])}
     /\ \A k \in 1..(Len(year_ranges) - 1) :
          Last(year_ranges[k]) < Last(year_ranges[k + 1])


\* the rows of the input whose Player is p and whose Year is in the range
RowsOf(p, year_range) ==
  {m \in 1..Len(csv.rows) :
     csv.rows[m].Player = p /\ csv.rows[m].Year \in Elems(year_range)}

RECURSIVE ColumnSum(_, _)
ColumnSum(S, col) ==
  IF S = {} THEN 0
  ELSE LET m == CHOOSE m \in S : TRUE
       IN csv.rows[m][col] + ColumnSum(S \ {m}, col)

\* C5: the summary of a year range R has exactly one row for each Player
\* with at least one record whose Year is in R, and none for the others.
C5_OneRowPerPlayerInRange ==
  ChartDrawn =>
    /\ \A p \in Players :
         Cardinality({k \in 1..Len(df_player) : df_player[k].Player = p})
           = IF RowsOf(p, ChartRange) # {} THEN 1 ELSE 0
    /\ \A k \in 1..Len(df_player) : df_player[k].Player \in Players

\* a range that has records of one player and none of the other
C5_Witness ==
  /\ ChartDrawn
  /\ Len(df_player) = 1
  /\ \E p \in Players :
       RowsOf(p, ChartRange) = {} /\ \E m \in 1..Len(csv.rows) : csv.rows[m].Player = p

\* C6: the totals are the exact sums of the player's Deaths, Points and
\* Wins over the records in the range, AverageRank is the sum of their
\* Rank divided by their count (one record: exactly its Rank), and the
\* fixture's range through 2021 gives PlayerA 3, 14, 0 and 2.5.
C6_SumsAndMean ==
  ChartDrawn =>
    /\ \A k \in 1..Len(df_player) :
         LET S == RowsOf(df_player[k].Player, ChartRange)
             avg == df_player[k].Average_Rank
         IN /\ df_player[k].Total_Deaths = ColumnSum(S, "Deaths")
            /\ df_player[k].Total_Points = ColumnSum(S, "Points")
            /\ df_player[k].Total_Wins = ColumnSum(S, "Wins")
            /\ avg.d > 0
            /\ avg.n * Cardinality(S) = ColumnSum(S, "Rank") * avg.d
            /\ \A m \in S : S = {m} => avg.n = csv.rows[m].Rank * avg.d
    /\ (csv.rows = Fixture /\ Last(ChartRange) = 2021) =>
         \E k \in 1..Len(df_player) :
           /\ df_player[k].Player = "PlayerA"
           /\ df_player[k].Total_Deaths = 3
           /\ df_player[k].Total_Points = 14
           /\ df_player[k].Total_Wins = 0
           /\ 2 * df_player[k].Average_Rank.n = 5 * df_player[k].Average_Rank.d

\* the fixture's chart of the range through 2021
C6_Witness ==
  /\ ChartDrawn
  /\ csv.rows = Fixture
  /\ Last(ChartRange) = 2021
  /\ Len(df_player) = 2

\* the configured maximum size of each script
MaxPointSize == IF script = "grid" THEN size_cap * size_scale ELSE max_size

\* C7: the point size is non-decreasing in TotalWins, never above the
\* configured maximum, and positive at TotalWins = 0, in both scripts.
C7_SizeMonotoneBoundedPositive ==
  ChartDrawn =>
    /\ \A k \in 1..Len(df_player) :
         /\ df_player[k].Size <= MaxPointSize
         /\ df_player[k].Size > 0
    /\ \A k, m \in 1..Len(df_player) :
         df_player[k].Total_Wins <= df_player[m].Total_Wins
           => df_player[k].Size <= df_player[m].Size

\* C8: when every player of the range has the same AverageRank the
\* normalisation divides by nothing and gives every point 0.5; otherwise
\* every colour is in [0, 1], the minimum at 0 and the maximum at 1.
C8_ColourNormalisation ==
  (ChartDrawn /\ script = "animated" /\ df_player # <<>>) =>
    LET ranks == {df_player[k].Average_Rank : k \in 1..Len(df_player)}
        lo == RMin(ranks)
        hi == RMax(ranks)
    IN IF REq(lo, hi)
         THEN \A k \in 1..Len(df_player) :
                /\ df_player[k].Color.d # 0
                /\ 2 * df_player[k].Color.n = df_player[k].Color.d
         ELSE \A k \in 1..Len(df_player) :
                LET c == df_player[k].Color
                IN /\ c.d > 0 /\ 0 <= c.n /\ c.n <= c.d
                   /\ REq(df_player[k].Average_Rank, lo) => c.n = 0
                   /\ REq(df_player[k].Average_Rank, hi) => c.n = c.d


RemoveReported(frame) ==
  \E k \in 1..Len(out) : out[k].kind = "remove_error" /\ out[k].years = <<frame>>

\* C9 (sequence mode): frame files are created only by the frame loop,
\* before assembly starts; the GIF is saved from the frames in the order of
\* the year ranges while every frame is still on disk; frames are deleted
\* only by the cleanup loop that follows; a run whose assembly succeeded
\* and whose deletions all succeeded leaves no frame file; and a failed
\* deletion is reported and the loop still handles every other frame.
C9_FrameLifecycle ==
  /\ [][(~(disk' \subseteq disk)) => (pc = "render" /\ gif = <<>>)]_vars
  /\ [][(gif' # gif) =>
          /\ pc = "assemble"
          /\ disk' = disk
          /\ Elems(frame_paths) \subseteq disk
          /\ gif' = [k \in 1..Len(year_ranges) |-> FramePath(year_ranges[k])]]_vars
  /\ [][(~(disk \subseteq disk')) => pc = "cleanup"]_vars
  /\ []((script = "animated" /\ pc = "done" /\ gif # <<>> /\ ~Printed("remove_error"))
          => disk = {})
  /\ []((script = "animated" /\ pc = "done") =>
          \A k \in 1..Len(frame_paths) :
            frame_paths[k] \notin disk \/ RemoveReported(frame_paths[k]))
  /\ []((script = "animated" /\ pc = "cleanup") =>
          \A k \in 1..(i - 1) :
            frame_paths[k] \notin disk \/ RemoveReported(frame_paths[k]))

\* a finished run: the GIF holds two frames, the deletion of the first
\* frame failed and was reported, the second frame was deleted
C9_Witness ==
  /\ script = "animated" /\ pc = "done"
  /\ Len(gif) >= 2
  /\ disk = {frame_paths[1]}
  /\ RemoveReported(frame_paths[1])

\* C10 (grid mode, 4 columns, n year ranges): the row count is the least r
\* with 4 * r >= n, the chart of the i-th range is in the i-th cell, and
\* exactly the cells after the n-th are hidden, so no cell is visible and
\* empty in the saved image.
C10_GridLayout ==
  (script = "grid" /\ pc \in {"plot", "hide", "save", "done"}) =>
    LET n == Len(year_ranges)
        r == Len(axes) \div cols
    IN /\ cols = 4
       /\ Len(axes) = cols * r
       /\ cols * r >= n
       /\ cols * (r - 1) < n
       /\ pc = "plot" =>
            \A k \in 1..(i - 1) : axes[k] = Cell("drawn", Last(year_ranges[k]))
       /\ pc \in {"hide", "save", "done"} =>
            \A k \in 1..n : axes[k] = Cell("drawn", Last(year_ranges[k]))
       /\ pc \in {"save", "done"} =>
            /\ {k \in 1..Len(axes) : axes[k].state = "off"} = (n + 1)..(cols * r)
            /\ \A k \in 1..Len(axes) : axes[k].state # "blank"
       /\ pc = "done" => png = axes

\* the saved grid: nine charts, three hidden cells
C10_Witness ==
  /\ script = "grid" /\ pc = "done"
  /\ Len(year_ranges) = 9
  /\ Len(png) = 12
  /\ png[9].state = "drawn" /\ png[10].state = "off"

====
